---- MODULE Spec2Model ----
(***************************************************************************)
(* Bulk URL status checker (src/tool.py): UrlChecker.check_url probes one  *)
(* URL (HEAD, GET on 405), UrlChecker.check_urls runs the probes on a      *)
(* ThreadPoolExecutor and buckets the outcomes as they complete,           *)
(* print_results / save_csv_report consume a result set, main drives them. *)
(*                                                                         *)
(* Strings are sequences of one-character strings, so that strip, urlparse *)
(* and the "https://" prefix are computed as the code computes them.       *)
(* A Python value that may be None is a sequence of length at most one:    *)
(* None is << >>, a present value v is << v >>.  A Python dict is a        *)
(* function whose DOMAIN is the set of its keys, so a key that was never   *)
(* assigned (final_url, redirected, redirect_url) is absent from DOMAIN.   *)
(***************************************************************************)
EXTENDS Integers, Sequences, FiniteSets, TLC

\* ---------------------------------------------------------------- bounds
\* Longest input list, or input file, checked against the plain transport.
MaxUrls == 2
\* Longest input list checked against the full transport (FullTransport below).
MaxProbedUrls == 1
\* Largest worker-pool size (max_workers ranges over 1..MaxWorkers).
MaxWorkers == 2
\* Length of the long batch, past the first multiple of ProgressEvery.
MaxBatch == 11
\* Longest string handed to normalize_url on its own.
MaxUrlLen == 4

\* ------------------------------------------------------------- constants
\* src/tool.py:20  default timeout of the constructor
DefaultTimeout == 10
\* src/tool.py:85  the status that triggers the GET fallback
MethodNotAllowed == 405
\* src/tool.py:144 the working range is WorkingLow <= code < WorkingHigh
WorkingLow == 200
WorkingHigh == 400
\* src/tool.py:137 a progress line every ProgressEvery completions
ProgressEvery == 10

\* ---------------------------------------------------------------- strings
None == << >>
Some(v) == << v >>

Letters == {"a", "b", "h", "p", "s", "t"}
\* The characters urlsplit accepts in a scheme (letters, digits, "+", "-", ".").
SchemeChars == Letters \cup {"+"}
Whitespace == {" "}

\* str.strip(): drop leading and trailing whitespace.
RECURSIVE lstrip(_)
lstrip(s) ==
  IF s # << >> /\ Head(s) \in Whitespace THEN lstrip(Tail(s)) ELSE s

RECURSIVE rstrip(_)
rstrip(s) ==
  IF s # << >> /\ s[Len(s)] \in Whitespace
  THEN rstrip(SubSeq(s, 1, Len(s) - 1))
  ELSE s

strip(s) == rstrip(lstrip(s))

\* str.find(c): the first index of c in s (1-based), 0 when c is not in s.
Find(s, c) ==
  IF \E i \in 1..Len(s) : s[i] = c
  THEN CHOOSE i \in 1..Len(s) : s[i] = c /\ \A j \in 1..(i - 1) : s[j] # c
  ELSE 0

\* urlsplit's scheme: the text before the first ":" when it starts with a
\* letter and holds only scheme characters; otherwise no scheme.
SchemeLen(u) ==
  LET i == Find(lstrip(u), ":")
      v == lstrip(u)
  IN IF i > 1 /\ v[1] \in Letters /\ \A j \in 1..(i - 1) : v[j] \in SchemeChars
     THEN i - 1
     ELSE 0

UrlScheme(u) == SubSeq(lstrip(u), 1, SchemeLen(u))

\* What urlsplit parses after the scheme and its ":".
AfterScheme(u) ==
  LET v == lstrip(u)
      n == SchemeLen(u)
  IN IF n > 0 THEN SubSeq(v, n + 2, Len(v)) ELSE v

\* urlsplit's netloc: after a leading "//", the text up to the next "/".
UrlNetloc(u) ==
  LET r == AfterScheme(u)
  IN IF Len(r) >= 2 /\ r[1] = "/" /\ r[2] = "/"
     THEN LET rest == SubSeq(r, 3, Len(r))
              k == Find(rest, "/")
          IN IF k = 0 THEN rest ELSE SubSeq(rest, 1, k - 1)
     ELSE << >>

Contains(s, c) == \E i \in 1..Len(s) : s[i] = c

\* urlparse raises ValueError("Invalid IPv6 URL") on an unmatched square
\* bracket in the netloc.
UrlparseRaises(u) ==
  LET n == UrlNetloc(u)
  IN \/ Contains(n, "[") /\ ~Contains(n, "]")
     \/ Contains(n, "]") /\ ~Contains(n, "[")

HttpsPrefix == <<"h", "t", "t", "p", "s", ":", "/", "/">>

\* UrlChecker.normalize_url on a URL urlparse accepts.
normalize_url(u) ==
  IF UrlScheme(u) = << >> THEN HttpsPrefix \o u ELSE u

\* ------------------------------------------------------------ environment
\* The raw strings a caller may put in the list: a bare host with
\* surrounding whitespace, a URL that already has a scheme, and a URL whose
\* netloc has an unmatched bracket.
BareHost == <<" ", "a", " ">>
WithScheme == <<"h", "t", "t", "p", ":", "/", "/", "a">>
BadBracket == <<"/", "/", "[">>
InputUrls == {BareHost, WithScheme, BadBracket}

\* The lines an input file may hold: a padded URL, a URL urlparse rejects and
\* a blank line.
BlankLine == <<" ">>
InputLines == {BareHost, BadBracket, BlankLine}

\* Where a server may send a request instead of answering at the URL asked.
RedirectTarget == <<"h", "t", "t", "p", "s", ":", "/", "/", "b">>

\* The status codes a server answers with: both ends of the working range,
\* the codes next to them, the fallback trigger, and codes outside 100..599.
Statuses == {99, 200, 399, 400, 405, 600}

\* response.reason, the status line's text.
StatusText(code) ==
  CASE code = 200 -> "OK"
    [] code = 400 -> "Bad Request"
    [] code = 405 -> "Method Not Allowed"
    [] OTHER -> ""

\* The requests.exceptions.RequestException subclasses the transport raises,
\* each with its message str(e).
RequestExceptions ==
  { [type |-> "ConnectionError", msg |-> "connection refused"],
    [type |-> "Timeout", msg |-> "timed out"] }

\* round(time.time() - start_time, 2), in hundredths of a second.
ElapsedTimes == {0, 7}

\* The stubbed transport, by what it can do: the status codes it answers
\* with, whether it may answer from RedirectTarget, the elapsed time a probe
\* over it measures and the exceptions it raises.  FullTransport(t) does
\* everything above over a network on which a probe measures t;
\* PlainTransport is a server that answers 200 or 405 in place, within less
\* than a hundredth of a second, or refuses the connection.
FullTransport(t) ==
  [statuses |-> Statuses, redirects |-> {FALSE, TRUE},
   elapsed |-> {t}, errors |-> RequestExceptions]

PlainTransport ==
  [statuses |-> {200, 405}, redirects |-> {FALSE},
   elapsed |-> {0},
   errors |-> {[type |-> "ConnectionError", msg |-> "connection refused"]}]

\* A server that answers every request with 200 in place.
QuietTransport ==
  [statuses |-> {200}, redirects |-> {FALSE}, elapsed |-> {7}, errors |-> {}]

\* ------------------------------------------------------------------ state
VARIABLES
  transport,  \* what the network answers (fixed for a run)
  caller,     \* "main": main() drives the checker; "api": a client calls the methods
  self,       \* the UrlChecker's fields
  urls,       \* the list passed to check_urls
  pc,         \* where the calling thread is
  submitted,  \* how many futures executor.submit has created
  task,       \* per list entry: the future and its check_url activation
  requests,   \* per list entry: what the transport saw, in order: each request's
              \* method and, once it was answered, the response or the exception
  snap,       \* as_completed: futures found finished at its start, not yet yielded
  waitq,      \* as_completed: the waiter's finished_futures not yet yielded, in order
  consumed,   \* futures the for loop has taken
  results,    \* check_urls' local results
  progress,   \* the progress lines printed, as <<completed, total>>
  report,     \* what print_results computed (None before it ran)
  csv,        \* the rows save_csv_report wrote (None before it ran)
  file,       \* main's FILE argument: none given, an unreadable file, or its lines
  trace,      \* main's own messages and the calls it has made, in order
  norm        \* a client's calls of normalize_url: the string it started from
              \* and what each call in turn returned or raised

vars == <<transport, caller, self, urls, pc, submitted, task, requests, snap, waitq,
          consumed, results, progress, report, csv, file, trace, norm>>

Entries == 1..Len(urls)

\* The responses the transport may return for a request to url.
Responses(url) ==
  { [status_code |-> c, reason |-> StatusText(c),
     url |-> IF moved THEN RedirectTarget ELSE url] :
      c \in transport.statuses, moved \in transport.redirects }

\* UrlChecker.__init__'s self.results, and check_urls' defaultdict(list): a
\* bucket that was never appended to reads as the empty list.
EmptyResults == [working |-> << >>, broken |-> << >>, errors |-> << >>]

\* A list entry before its probe runs: st is where its check_url activation
\* is ("queued", "head", "get", "finished"), calls counts the activations,
\* locals holds check_url's local variables while it runs (None otherwise)
\* and future holds the future's result or exception once it is set.
NewTask == [st |-> "queued", calls |-> 0, locals |-> None, future |-> None]

RECURSIVE SeqsUpTo(_, _)
SeqsUpTo(S, n) ==
  IF n = 0 THEN {<< >>}
  ELSE LET shorter == SeqsUpTo(S, n - 1)
       IN shorter \cup { Append(q, x) : q \in {r \in shorter : Len(r) = n - 1}, x \in S }

\* The names of the headers __init__ sets on the session (lines 41-45).
BrowserHeaders == {"User-Agent", "Accept", "Accept-Language"}

\* main's FILE argument (lines 215, 232): absent, a file that cannot be
\* read, or a file with these lines.
NoFile == [kind |-> "none", lines |-> << >>]
Unreadable == [kind |-> "unreadable", lines |-> << >>]
Readable(lines) == [kind |-> "lines", lines |-> lines]

Files(n) == {NoFile, Unreadable} \cup { Readable(l) : l \in SeqsUpTo(InputLines, n) }

\* load_urls_from_file (lines 202-210): the stripped non-blank lines, or the
\* empty list when reading fails.
RECURSIVE StrippedLines(_)
StrippedLines(lines) ==
  IF lines = << >> THEN << >>
  ELSE IF strip(Head(lines)) # << >>
       THEN <<strip(Head(lines))>> \o StrippedLines(Tail(lines))
       ELSE StrippedLines(Tail(lines))

load_urls_from_file(f) ==
  IF f.kind = "lines" THEN StrippedLines(f.lines) ELSE << >>

\* No call of normalize_url made yet on the string u.
NoCalls(u) == [input |-> u, outs |-> << >>]

\* The runs explored: over the full transport (with the elapsed time the
\* plain one does not give), lists of up to MaxProbedUrls entries probed by
\* one worker; over the plain transport, lists of up to
\* MaxUrls entries and up to MaxWorkers workers; over the quiet transport,
\* batches of one URL repeated ProgressEvery or MaxBatch times, probed by one
\* worker.
Batches == { [i \in 1..n |-> WithScheme] : n \in {ProgressEvery, MaxBatch} }

Scenarios ==
  { [transport |-> FullTransport(t), size |-> MaxProbedUrls, workers |-> 1, batch |-> FALSE] :
      t \in ElapsedTimes \ PlainTransport.elapsed }
  \cup { [transport |-> PlainTransport, size |-> MaxUrls, workers |-> w, batch |-> FALSE] :
           w \in 1..MaxWorkers }
  \cup { [transport |-> QuietTransport, size |-> MaxBatch, workers |-> 1, batch |-> TRUE] }

\* A client of UrlChecker passes a list of its own to check_urls; main reads
\* its list from the file first.
Init ==
  /\ \E sc \in Scenarios :
       /\ transport = sc.transport
       /\ self = [timeout |-> DefaultTimeout, max_workers |-> sc.workers,
                  verify_ssl |-> FALSE, results |-> EmptyResults,
                  headers |-> BrowserHeaders]
       /\ \/ /\ caller = "api"
             /\ file = NoFile
             /\ pc = "start"
             /\ urls \in IF sc.batch THEN Batches ELSE SeqsUpTo(InputUrls, sc.size)
          \/ /\ caller = "main"
             /\ ~sc.batch
             /\ file \in Files(sc.size)
             /\ urls = << >>
             /\ pc = "main"
  /\ trace = << >>
  /\ norm = NoCalls(<< >>)
  /\ submitted = 0
  /\ task = [i \in Entries |-> NewTask]
  /\ requests = [i \in Entries |-> << >>]
  /\ snap = {}
  /\ waitq = << >>
  /\ consumed = {}
  /\ results = EmptyResults
  /\ progress = << >>
  /\ report = None
  /\ csv = None

\* ------------------------------------------------------------- check_url
\* The result dict check_url starts from (lines 64-72).
InitialResult(url) ==
  [url |-> url, original_url |-> url, status_code |-> None, reason |-> None,
   is_error |-> FALSE, error_type |-> None, response_time |-> 0]

\* Completed with the redirect test made against the status code instead of
\* the URL: a 3xx answer counts as redirected.
CompletedRedirectByStatus(result, url, response, elapsed) ==
  LET base == [result EXCEPT !.response_time = elapsed,
                             !.status_code = Some(response.status_code),
                             !.reason = Some(response.reason)]
                @@ [final_url |-> response.url]
  IN IF response.status_code \div 100 = 3
     THEN base @@ [redirected |-> TRUE, redirect_url |-> response.url]
     ELSE base

\* Lines 96-104: the result after a response was obtained.
Completed(result, url, response, elapsed) ==
  LET base == [result EXCEPT !.response_time = elapsed,
                             !.status_code = Some(response.status_code),
                             !.reason = Some(response.reason)]
                @@ [final_url |-> response.url]
  IN IF response.url # url
     THEN base @@ [redirected |-> TRUE, redirect_url |-> response.url]
     ELSE base

\* Failed without the is_error assignment.
FailedWithoutFlag(result, e) ==
  [result EXCEPT !.error_type = Some(e.type),
                 !.reason = Some(e.msg)]

\* Failed with the time spent until the exception recorded as response_time.
FailedWithElapsed(result, e) ==
  [result EXCEPT !.is_error = TRUE,
                 !.error_type = Some(e.type),
                 !.reason = Some(e.msg),
                 !.response_time = 7]

\* Lines 106-109: the result after a RequestException e.
Failed(result, e) ==
  [result EXCEPT !.is_error = TRUE,
                 !.error_type = Some(e.type),
                 !.reason = Some(e.msg)]

\* NeedsFallback on every client or server error status.
NeedsFallbackOnAnyError(response) == response.status_code >= 400

\* Line 85: whether the HEAD's answer sends check_url into the GET fallback.
NeedsFallback(response) == response.status_code = MethodNotAllowed

\* FallbackResponse with the GET's response not assigned: the HEAD's stays.
FallbackResponseKeepsHead(head, get) == head

\* Line 86: the GET's response is assigned to the variable that held the HEAD's.
FallbackResponse(head, get) == get

\* What a future holds once its call ended.
Returned(result) == [kind |-> "result", value |-> result]
Raised(type) == [kind |-> "exception", type |-> type]

\* The transport's record of a request being sent, and of its answer.
Sent(log, method) == Append(log, [method |-> method, reply |-> None])
Answered(log, reply) == [log EXCEPT ![Len(log)].reply = Some(reply)]

\* ------------------------------------------------------------ the executor
Running == { i \in Entries : task[i].st \in {"head", "get"} }

\* WorkerFree off by one: a worker is taken to be free when all are busy.
WorkerFreeOffByOne == Cardinality(Running) <= self.max_workers

\* A queued work item is taken by a worker thread: the pool has max_workers
\* threads, each runs one item at a time, and the queue is first in first out.
WorkerFree == Cardinality(Running) < self.max_workers

CanStart(i) ==
  /\ i <= submitted
  /\ task[i].st = "queued"
  /\ \A j \in 1..(i - 1) : task[j].st # "queued"
  /\ WorkerFree

\* Future.set_result / set_exception: the future is finished and, when
\* as_completed's waiter is installed, added to its finished_futures.
Finish(i, outcome) ==
  /\ task' = [task EXCEPT ![i] = [@ EXCEPT !.st = "finished",
                                           !.locals = None,
                                           !.future = Some(outcome)]]
  /\ waitq' = IF pc = "consume" THEN Append(waitq, i) ELSE waitq

\* WorkerFrame with check_url recording its call in check_urls' errors bucket.
WorkerFrameSharedBucket ==
  /\ results' = [results EXCEPT !.errors = Append(@, InitialResult(<< >>))]
  /\ UNCHANGED <<transport, caller, self, urls, pc, submitted, snap, consumed,
                 progress, report, csv, file, trace, norm>>

\* What a worker thread running check_url leaves alone (lines 63-111): it
\* works on its own result dict and on the session, and touches neither the
\* checker's fields nor anything check_urls or main holds.
WorkerFrame ==
  UNCHANGED <<transport, caller, self, urls, pc, submitted, snap, consumed,
              results, progress, report, csv, file, trace, norm>>

\* A worker thread starts check_url(urls[i]): lines 63-82 up to the HEAD
\* request being sent.  normalize_url is outside the try block, so urlparse's
\* ValueError leaves check_url and ends up in the future.
StartProbe(i) ==
  /\ CanStart(i)
  /\ LET raw == strip(urls[i])
     IN IF UrlparseRaises(raw)
        THEN /\ task' = [task EXCEPT ![i] = [@ EXCEPT !.st = "finished",
                                                      !.calls = @ + 1,
                                                      !.future = Some(Raised("ValueError"))]]
             /\ waitq' = IF pc = "consume" THEN Append(waitq, i) ELSE waitq
             /\ UNCHANGED requests
        ELSE /\ task' = [task EXCEPT ![i] =
                           [@ EXCEPT !.st = "head",
                                     !.calls = @ + 1,
                                     !.locals = Some([url |-> normalize_url(raw),
                                                      result |-> InitialResult(normalize_url(raw))])]]
             /\ requests' = [requests EXCEPT ![i] = Sent(@, "HEAD")]
             /\ UNCHANGED waitq
  /\ WorkerFrame

\* session.head returns a response (lines 77-104).
HeadResponds(i) ==
  /\ task[i].st = "head"
  /\ LET l == task[i].locals[1]
     IN \E r \in Responses(l.url) :
          IF NeedsFallback(r)
          THEN /\ task' = [task EXCEPT ![i] =
                             [@ EXCEPT !.st = "get",
                                       !.locals = Some(l @@ [response |-> r])]]
               /\ requests' = [requests EXCEPT ![i] = Sent(Answered(@, r), "GET")]
               /\ UNCHANGED waitq
          ELSE /\ \E t \in transport.elapsed :
                    Finish(i, Returned(Completed(l.result, l.url, r, t)))
               /\ requests' = [requests EXCEPT ![i] = Answered(@, r)]
  /\ WorkerFrame

\* session.head raises a RequestException (lines 106-111).
HeadFails(i) ==
  /\ task[i].st = "head"
  /\ \E e \in transport.errors :
       /\ Finish(i, Returned(Failed(task[i].locals[1].result, e)))
       /\ requests' = [requests EXCEPT ![i] = Answered(@, e)]
  /\ WorkerFrame

\* session.get returns a response, which replaces the HEAD's (lines 86-104).
GetResponds(i) ==
  /\ task[i].st = "get"
  /\ LET l == task[i].locals[1]
     IN \E r \in Responses(l.url), t \in transport.elapsed :
          /\ Finish(i, Returned(Completed(l.result, l.url, FallbackResponse(l.response, r), t)))
          /\ requests' = [requests EXCEPT ![i] = Answered(@, r)]
  /\ WorkerFrame

\* session.get raises a RequestException (lines 106-111).
GetFails(i) ==
  /\ task[i].st = "get"
  /\ \E e \in transport.errors :
       /\ Finish(i, Returned(Failed(task[i].locals[1].result, e)))
       /\ requests' = [requests EXCEPT ![i] = Answered(@, e)]
  /\ WorkerFrame

\* ------------------------------------------------------------ check_urls
\* Category with the upper end of the working range included.
CategoryUpperInclusive(result) ==
  IF result.is_error THEN "errors"
  ELSE IF result.status_code = None THEN "TypeError"
  ELSE IF WorkingLow <= result.status_code[1] /\ result.status_code[1] <= WorkingHigh
       THEN "working"
       ELSE "broken"

\* Lines 142-147: the bucket of a result.  Comparing None with an integer
\* raises TypeError.
Category(result) ==
  IF result.is_error THEN "errors"
  ELSE IF result.status_code = None THEN "TypeError"
  ELSE IF WorkingLow <= result.status_code[1] /\ result.status_code[1] < WorkingHigh
       THEN "working"
       ELSE "broken"

\* Bucketed with the final else branch lost: a broken outcome is dropped.
BucketedDroppingBroken(rs, result) ==
  IF Category(result) = "broken" THEN rs
  ELSE [rs EXCEPT ![Category(result)] = Append(@, result)]

\* Bucketed with the result put at the front of its bucket.
BucketedAtFront(rs, result) ==
  [rs EXCEPT ![Category(result)] = <<result>> \o @]

\* Lines 142-147: results with result appended to its bucket.
Bucketed(rs, result) ==
  [rs EXCEPT ![Category(result)] = Append(@, result)]

\* ProgressDue without the completed == total alternative.
ProgressDueWithoutLast(completed, total) == completed % ProgressEvery = 0

\* Line 137: whether the completion numbered completed prints a progress line.
ProgressDue(completed, total) ==
  completed % ProgressEvery = 0 \/ completed = total

\* main reads its arguments and loads the URLs (lines 221-235).  A file that
\* cannot be read is reported by load_urls_from_file, which returns [].
MainLoad ==
  /\ pc = "main"
  /\ pc' = "start"
  /\ urls' = load_urls_from_file(file)
  /\ task' = [i \in 1..Len(urls') |-> NewTask]
  /\ requests' = [i \in 1..Len(urls') |-> << >>]
  /\ trace' = CASE file.kind = "none" -> trace
               [] file.kind = "unreadable" -> trace \o <<"load_error", "loaded">>
               [] OTHER -> Append(trace, "loaded")
  /\ UNCHANGED <<transport, caller, self, submitted, snap, waitq, consumed,
                 results, progress, report, csv, file, norm>>

\* MainHasUrls without the test: main goes on whatever was loaded.
MainHasUrlsUntested == TRUE

\* Line 237: main goes on to check_urls only with a non-empty list.
MainHasUrls == urls # << >>

\* main with no URL to check (lines 237-239).
MainNoUrls ==
  /\ pc = "start"
  /\ caller = "main"
  /\ ~MainHasUrls
  /\ pc' = "exit"
  /\ trace' = Append(trace, "no_urls")
  /\ UNCHANGED <<transport, caller, self, urls, submitted, task, requests, snap, waitq,
                 consumed, results, progress, report, csv, file, norm>>

\* check_urls is entered (lines 123-128) with a fresh result set, fresh
\* futures and its own progress count.  main calls it once, and only with
\* URLs; a client may call it again with its list once a call has returned.
CheckUrlsCall ==
  /\ IF caller = "main" THEN pc = "start" /\ MainHasUrls
                        ELSE pc \in {"start", "returned"}
  /\ pc' = "submit"
  /\ results' = EmptyResults
  /\ submitted' = 0
  /\ task' = [i \in Entries |-> NewTask]
  /\ requests' = [i \in Entries |-> << >>]
  /\ snap' = {}
  /\ waitq' = << >>
  /\ consumed' = {}
  /\ progress' = << >>
  /\ trace' = IF caller = "main" THEN Append(trace, "check_urls") ELSE trace
  /\ UNCHANGED <<transport, caller, self, urls, report, csv, file, norm>>

\* executor.submit for the next list entry (line 129).
Submit ==
  /\ pc = "submit"
  /\ submitted < Len(urls)
  /\ submitted' = submitted + 1
  /\ UNCHANGED <<transport, caller, self, urls, pc, task, requests, snap, waitq,
                 consumed, results, progress, report, csv, file, trace, norm>>

\* The for loop asks as_completed for its first future (lines 132-135):
\* the futures already finished are set aside, the others will arrive through
\* the waiter in the order they finish.
AsCompletedStart ==
  /\ pc = "submit"
  /\ submitted = Len(urls)
  /\ snap' = { i \in Entries : task[i].st = "finished" }
  /\ pc' = "consume"
  /\ UNCHANGED <<transport, caller, self, urls, submitted, task, requests, waitq,
                 consumed, results, progress, report, csv, file, trace, norm>>

\* The future as_completed yields next: any of those finished at its start
\* (a set, in no order), then the waiter's in the order they finished.
Yields(i) ==
  IF snap # {} THEN i \in snap
  ELSE waitq # << >> /\ i = Head(waitq)

\* One iteration of the for loop (lines 135-147).  future.result() re-raises
\* what check_url raised; the exception leaves the loop.
Consume(i) ==
  /\ pc = "consume"
  /\ i \in Entries \ consumed
  /\ Yields(i)
  /\ snap' = snap \ {i}
  /\ waitq' = IF snap = {} THEN Tail(waitq) ELSE waitq
  /\ consumed' = consumed \cup {i}
  /\ LET completed == Cardinality(consumed) + 1
         total == Len(urls)
     IN progress' = IF ProgressDue(completed, total)
                    THEN Append(progress, <<completed, total>>)
                    ELSE progress
  /\ LET f == task[i].future[1]
     IN IF f.kind = "exception" \/ Category(f.value) = "TypeError"
        THEN /\ pc' = "unwinding"
             /\ UNCHANGED results
        ELSE /\ results' = Bucketed(results, f.value)
             /\ UNCHANGED pc
  /\ UNCHANGED <<transport, caller, self, urls, submitted, task, requests, report, csv, file, trace, norm>>

\* The loop is over, the with block joins the workers, check_urls returns
\* results (lines 148-150).
Return ==
  /\ pc = "consume"
  /\ consumed = Entries
  /\ pc' = "returned"
  /\ UNCHANGED <<transport, caller, self, urls, submitted, task, requests, snap, waitq,
                 consumed, results, progress, report, csv, file, trace, norm>>

\* An exception left the loop: the with block's exit (shutdown(wait=True))
\* lets the workers run every queued probe, then the exception leaves
\* check_urls, and main with it.
Unwind ==
  /\ pc = "unwinding"
  /\ \A i \in Entries : task[i].st = "finished"
  /\ pc' = "raised"
  /\ UNCHANGED <<transport, caller, self, urls, submitted, task, requests, snap, waitq,
                 consumed, results, progress, report, csv, file, trace, norm>>

\* ----------------------------------------------- print_results, save_csv
Total(rs) == Len(rs.working) + Len(rs.broken) + Len(rs.errors)

\* round(n / total * 100, 1) in tenths of a percent: the nearest tenth, a tie
\* going to the even one.
Percent(n, total) ==
  LET q == (n * 1000) \div total
      r == (n * 1000) % total
  IN IF 2 * r > total \/ (2 * r = total /\ q % 2 = 1) THEN q + 1 ELSE q

\* Chosen with self.results taken to hold the latest check's outcomes.
ChosenLatest(arg) == results

\* The result set a reporting method works on (lines 154-155, 184-185).
Chosen(arg) == IF arg = "given" THEN results ELSE self.results

\* print_results (lines 152-180).  The listings and the total are printed,
\* then line 178 divides by total: ZeroDivisionError when it is 0.
PrintResults(arg) ==
  /\ pc = "returned"
  /\ caller = "main" => arg = "given"
  /\ LET rs == Chosen(arg)
         total == Total(rs)
         counts == [working |-> Len(rs.working), broken |-> Len(rs.broken),
                    errors |-> Len(rs.errors)]
     IN IF total = 0
        THEN /\ pc' = "print_raised"
             /\ report' = Some([of |-> arg, counts |-> counts, total |-> total,
                                percents |-> None])
        ELSE /\ pc' = "printed"
             /\ report' = Some([of |-> arg, counts |-> counts, total |-> total,
                                percents |-> Some([working |-> Percent(counts.working, total),
                                                   broken |-> Percent(counts.broken, total),
                                                   errors |-> Percent(counts.errors, total)])])
  /\ trace' = IF caller = "main" THEN Append(trace, "print_results") ELSE trace
  /\ UNCHANGED <<transport, caller, self, urls, submitted, task, requests, snap, waitq,
                 consumed, results, progress, csv, file, norm>>

FieldNames == {"url", "status_code", "reason", "response_time", "is_error",
               "error_type", "redirected", "redirect_url"}

\* What csv.DictWriter writes for a value: '' for None, str(value) for
\* anything else.  A cell is tagged with what its text spells: "str" with the
\* text itself, "url" with the URL's characters, "hundredths" with the number
\* of hundredths of a second a response time's decimal text denotes.
EmptyCell == <<"str", "">>

Cell(field, value) ==
  CASE field \in {"url", "redirect_url"} -> <<"url", value>>
    [] field = "status_code" ->
         IF value = None THEN EmptyCell ELSE <<"str", ToString(value[1])>>
    [] field \in {"reason", "error_type"} ->
         IF value = None THEN EmptyCell ELSE <<"str", value[1]>>
    [] field = "response_time" -> <<"hundredths", value>>
    [] OTHER -> <<"str", IF value THEN "True" ELSE "False">>

\* Line 197: the row of a result, result.get(field, '') for each column.
Row(result) ==
  [f \in FieldNames |-> IF f \in DOMAIN result THEN Cell(f, result[f]) ELSE EmptyCell]

Rows(bucket) == [k \in 1..Len(bucket) |-> Row(bucket[k])]

\* CsvRows with the categories listed as errors, broken, working.
CsvRowsErrorsFirst(rs) == Rows(rs.errors) \o Rows(rs.broken) \o Rows(rs.working)

\* Lines 194-198: the rows in the order they are written.
CsvRows(rs) == Rows(rs.working) \o Rows(rs.broken) \o Rows(rs.errors)

\* save_csv_report (lines 182-200); main calls it after print_results.
SaveCsvReport(arg) ==
  /\ IF caller = "main" THEN pc = "printed" /\ arg = "given"
                        ELSE pc \in {"returned", "printed"}
  /\ csv' = Some([of |-> arg, rows |-> CsvRows(Chosen(arg))])
  /\ pc' = "saved"
  /\ trace' = IF caller = "main" THEN Append(trace, "save_csv_report") ELSE trace
  /\ UNCHANGED <<transport, caller, self, urls, submitted, task, requests, snap, waitq,
                 consumed, results, progress, report, file, norm>>

\* ---------------------------------------------------------- normalize_url
\* The strings a client may hand to normalize_url: every string of up to
\* MaxUrlLen characters over a letter, the scheme, path and bracket
\* punctuation, and a blank.
UrlChars == {"a", ":", "/", "[", " "}
UrlStrings == SeqsUpTo(UrlChars, MaxUrlLen)

\* A call of normalize_url (lines 47-51): urlparse raises ValueError, or the
\* URL comes back with https:// put before it when it has no scheme.
normalize_url_call(u) ==
  IF UrlparseRaises(u) THEN Raised("ValueError") ELSE Returned(normalize_url(u))

\* A client holds a checker and a string.
NormInit ==
  /\ transport = QuietTransport
  /\ caller = "api"
  /\ self = [timeout |-> DefaultTimeout, max_workers |-> 1,
             verify_ssl |-> FALSE, results |-> EmptyResults,
             headers |-> BrowserHeaders]
  /\ urls = << >>
  /\ pc = "start"
  /\ file = NoFile
  /\ trace = << >>
  /\ norm \in { NoCalls(u) : u \in UrlStrings }
  /\ submitted = 0
  /\ task = << >>
  /\ requests = << >>
  /\ snap = {}
  /\ waitq = << >>
  /\ consumed = {}
  /\ results = EmptyResults
  /\ progress = << >>
  /\ report = None
  /\ csv = None

\* The client calls normalize_url on its string, then on what that returned.
NormalizeCall ==
  /\ Len(norm.outs) < 2
  /\ norm.outs # << >> => norm.outs[1].kind = "result"
  /\ LET arg == IF norm.outs = << >> THEN norm.input ELSE norm.outs[1].value
     IN norm' = [norm EXCEPT !.outs = Append(@, normalize_url_call(arg))]
  /\ UNCHANGED <<transport, caller, self, urls, pc, submitted, task, requests, snap,
                 waitq, consumed, results, progress, report, csv, file, trace>>

NormNext == NormalizeCall

NormSpec == NormInit /\ [][NormNext]_vars

\* ------------------------------------------------------------------- spec
WorkerStep ==
  \E i \in Entries :
    \/ StartProbe(i)
    \/ HeadResponds(i)
    \/ HeadFails(i)
    \/ GetResponds(i)
    \/ GetFails(i)

CheckUrlsStep ==
  \/ CheckUrlsCall
  \/ Submit
  \/ AsCompletedStart
  \/ \E i \in Entries : Consume(i)
  \/ Return
  \/ Unwind

Next ==
  \/ MainLoad
  \/ MainNoUrls
  \/ CheckUrlsStep
  \/ WorkerStep
  \/ \E arg \in {"given", "default"} : PrintResults(arg)
  \/ \E arg \in {"given", "default"} : SaveCsvReport(arg)

Spec == Init /\ [][Next]_vars

\* Every probe is bounded by its timeout, the pool's threads and the calling
\* thread are scheduled by the operating system: a step of check_urls or of a
\* worker that stays possible is eventually taken.
FairSpec == Spec /\ WF_vars(CheckUrlsStep) /\ WF_vars(WorkerStep)

\* ----------------------------------------------------------------- claims
\* check_urls has handed its result set back to its caller.
CheckUrlsReturned == pc \in {"returned", "printed", "print_raised", "saved"}

\* check_urls has ended, by returning or by an exception leaving it.
CheckUrlsEnded == CheckUrlsReturned \/ pc = "raised"

AllOutcomes == results.working \o results.broken \o results.errors

Occurrences(o) == Cardinality({ k \in 1..Len(AllOutcomes) : AllOutcomes[k] = o })

HasResult(i) ==
  task[i].st = "finished" /\ task[i].future[1].kind = "result"

Outcome(i) == task[i].future[1].value

\* C1: when check_urls returns, the three buckets together hold exactly one
\* outcome per list entry (repeated URLs counted per occurrence): as many
\* outcomes as entries, every entry's outcome present, and each outcome
\* present exactly as often as there are entries that produced it.
C1_OneOutcomePerEntry ==
  CheckUrlsReturned =>
    /\ Total(results) = Len(urls)
    /\ \A i \in Entries :
         /\ HasResult(i)
         /\ Occurrences(Outcome(i))
              = Cardinality({ j \in Entries : HasResult(j) /\ Outcome(j) = Outcome(i) })

\* C1 witness: a returned run over a full-length list with two workers in
\* which one probe failed and another one succeeded.
C1_Witness ==
  /\ pc = "returned"
  /\ Len(urls) = MaxUrls
  /\ self.max_workers > 1
  /\ results.errors # << >>
  /\ results.working # << >>

\* The probe of entry i ended in a failure: check_url raised, or it returned
\* an error outcome.
ProbeFailed(i) ==
  /\ task[i].st = "finished"
  /\ \/ task[i].future[1].kind = "exception"
     \/ task[i].future[1].value.is_error

\* C2: a probe that fails, in whatever way, does not abort the batch: once
\* check_urls has ended it has returned, and its result set holds the outcome
\* of every entry other than the failed ones.
C2_FailureIsolated ==
  CheckUrlsEnded =>
    \A i, j \in Entries :
      i # j /\ ProbeFailed(i) /\ HasResult(j) =>
        /\ CheckUrlsReturned
        /\ Occurrences(Outcome(j)) >= 1

\* C3: check_url never raises: every finished call left a result in its
\* future, and a failed call's result has is_error, error_type and reason set.
C3_NeverRaises ==
  \A i \in Entries :
    task[i].st = "finished" =>
      /\ task[i].future[1].kind = "result"
      /\ \/ ~Outcome(i).is_error
         \/ Outcome(i).error_type # None /\ Outcome(i).reason # None

\* C4: at most max_workers probes are between their start and their end; a
\* submitted probe waits in the queue while all max_workers slots are taken.
C4_BoundedConcurrency == Cardinality(Running) <= self.max_workers

\* C4 witness: every worker slot is taken while a submitted probe is queued.
C4_Witness ==
  /\ Cardinality(Running) = self.max_workers
  /\ \E i \in Entries : i <= submitted /\ task[i].st = "queued"

InBucket(b, o) == \E k \in 1..Len(results[b]) : results[b][k] = o

\* C5: the bucket of an outcome is decided by the outcome alone.  Every
\* outcome in errors has is_error; every outcome in working has no error and
\* 200 <= status_code < 400; every outcome in broken has no error and a
\* status code outside that range; and an outcome the loop has taken is in
\* the bucket its fields name.
C5_BucketsByOutcome ==
  /\ \A k \in 1..Len(results.errors) : results.errors[k].is_error
  /\ \A k \in 1..Len(results.working) :
       /\ ~results.working[k].is_error
       /\ results.working[k].status_code # None
       /\ results.working[k].status_code[1] >= 200
       /\ results.working[k].status_code[1] < 400
  /\ \A k \in 1..Len(results.broken) :
       /\ ~results.broken[k].is_error
       /\ results.broken[k].status_code # None
       /\ \/ results.broken[k].status_code[1] < 200
          \/ results.broken[k].status_code[1] >= 400
  /\ \A i \in consumed :
       HasResult(i) /\ pc # "unwinding" =>
         LET o == Outcome(i)
         IN /\ o.is_error => InBucket("errors", o)
            /\ ~o.is_error /\ o.status_code # None /\ o.status_code[1] \in 200..399
                 => InBucket("working", o)
            /\ ~o.is_error /\ o.status_code # None /\ o.status_code[1] \notin 200..399
                 => InBucket("broken", o)

\* C5 witness: check_urls returned with a code above 599 in broken.
C5_Witness ==
  /\ \E k \in 1..Len(results.broken) : results.broken[k].status_code = Some(600)
  /\ pc = "returned"

\* C6: an outcome check_url returned has is_error true or a status code,
\* never both and never neither.
C6_ErrorXorStatus ==
  \A i \in Entries :
    HasResult(i) => (Outcome(i).is_error <=> Outcome(i).status_code = None)

\* C6 witness: a probe whose HEAD was answered 405 and whose GET then failed
\* has returned its outcome.
C6_Witness ==
  \E i \in Entries :
    /\ HasResult(i)
    /\ Len(requests[i]) = 2
    /\ Outcome(i).is_error

\* C7: under fair scheduling check_urls, once entered, eventually returns,
\* with one outcome per submitted URL.
C7_EventuallyReturns ==
  (pc = "submit") ~> (CheckUrlsReturned /\ Total(results) = Len(urls))

\* C8: after check_urls was called with an empty list and returned, the
\* summary step does not fail with a division by zero.
C8_SummaryGuarded ==
  urls = << >> /\ CheckUrlsReturned => pc # "print_raised"

IsResponse(reply) == "status_code" \in DOMAIN reply

HeadAnswered405(i) ==
  /\ Len(requests[i]) >= 1
  /\ requests[i][1].reply # None
  /\ IsResponse(requests[i][1].reply[1])
  /\ requests[i][1].reply[1].status_code = 405

\* C9: a HEAD answered 405 is followed by a GET for the same URL and the
\* outcome's status_code, reason and final URL are those of the GET's
\* response; a HEAD answered with any other status is followed by no GET and
\* the outcome carries the HEAD's response.
C9_FallbackOn405 ==
  \A i \in Entries :
    LET log == requests[i]
    IN /\ HeadAnswered405(i) <=> Len(log) = 2
       /\ Len(log) = 2 => log[1].method = "HEAD" /\ log[2].method = "GET"
       /\ HasResult(i) /\ ~Outcome(i).is_error =>
            LET last == log[Len(log)].reply[1]
            IN /\ Outcome(i).status_code = Some(last.status_code)
               /\ Outcome(i).reason = Some(last.reason)
               /\ Outcome(i).final_url = last.url

\* C9 witness: HEAD answered 405, GET answered 200, and the outcome, with
\* status 200, is in working.
C9_Witness ==
  \E i \in Entries :
    /\ HeadAnswered405(i)
    /\ HasResult(i)
    /\ Outcome(i).status_code = Some(200)
    /\ InBucket("working", Outcome(i))

\* The requests of entry i are a HEAD, then at most one GET, the GET only
\* after the HEAD was answered 405.
RequestsWellFormed(i) ==
  LET log == requests[i]
  IN /\ Len(log) <= 2
     /\ Len(log) >= 1 => log[1].method = "HEAD"
     /\ Len(log) = 2 => log[2].method = "GET" /\ HeadAnswered405(i)

RECURSIVE Signals(_, _)
Signals(n, total) ==
  IF n = 0 THEN << >>
  ELSE IF n % 10 = 0 \/ n = total
       THEN Append(Signals(n - 1, total), <<n, total>>)
       ELSE Signals(n - 1, total)

\* C11: while check_urls consumes completions, a progress line has been printed
\* for exactly those completions whose number n is a multiple of 10 or equals
\* total, each reporting (n, total), with strictly increasing counts; once
\* check_urls has returned from a non-empty list the last line is
\* (total, total).
C11_ProgressSignals ==
  LET n == Cardinality(consumed)
      total == Len(urls)
  IN /\ progress = Signals(n, total)
     /\ \A j, k \in 1..Len(progress) : j < k => progress[j][1] < progress[k][1]
     /\ (CheckUrlsReturned /\ total >= 1) =>
          /\ progress # << >>
          /\ progress[Len(progress)] = <<total, total>>

\* A batch of 11 was checked: lines for the 10th and for the 11th completion.
C11_Witness ==
  /\ pc = "returned"
  /\ Len(urls) = 11
  /\ progress = << <<10, 11>>, <<11, 11>> >>

\* The outcomes of the first n list entries that belong to bucket b, in list
\* order.
RECURSIVE InListOrder(_, _)
InListOrder(b, n) ==
  IF n = 0 THEN << >>
  ELSE IF Category(Outcome(n)) = b
       THEN Append(InListOrder(b, n - 1), Outcome(n))
       ELSE InListOrder(b, n - 1)

\* C12 as stated, with the order in which the probes completed: one worker
\* thread runs the probes one after another in list order, so they complete in
\* list order, and every bucket would hold its outcomes in list order.
C12_CompletionOrder ==
  /\ self.max_workers = 1 =>
       \A i, j \in Entries : (i < j /\ task[j].st # "queued") => task[i].st = "finished"
  /\ (self.max_workers = 1 /\ CheckUrlsReturned) =>
       \A b \in DOMAIN results : results[b] = InListOrder(b, Len(urls))

\* C12: within a call of check_urls a bucket changes only by the outcome of
\* the completion just consumed being appended at its end, so of two outcomes
\* in one bucket the one consumed first comes first, whatever the input order
\* and the interleaving.
C12_ConsumptionOrder ==
  [][ pc' # "submit" =>
        \A b \in DOMAIN results :
          \/ results'[b] = results[b]
          \/ /\ pc = "consume"
             /\ \E i \in consumed' \ consumed :
                  /\ consumed' = consumed \cup {i}
                  /\ results'[b] = Append(results[b], Outcome(i))
                  /\ \A c \in DOMAIN results \ {b} : results'[c] = results[c] ]_vars

\* The second entry's probe was consumed before the first's, and its outcome
\* stands first in their bucket.
C12_Witness ==
  /\ pc = "returned"
  /\ Len(urls) = 2
  /\ Outcome(1) # Outcome(2)
  /\ results.working = <<Outcome(2), Outcome(1)>>

LastReply(i) == requests[i][Len(requests[i])].reply[1]

\* The URL entry i's probe requests: the stripped entry, normalized.
RequestUrl(i) == normalize_url(strip(urls[i]))

\* C14: an outcome has redirected true exactly when the final response's URL
\* differs from the normalized request URL, has redirect_url exactly when it
\* has redirected, redirect_url and final_url being the final response's URL;
\* an outcome without a response has neither; the bucket is that of the final
\* status code.
C14_RedirectRecorded ==
  \A i \in Entries :
    HasResult(i) =>
      LET o == Outcome(i)
          redirected == "redirected" \in DOMAIN o /\ o.redirected
      IN /\ "redirect_url" \in DOMAIN o <=> redirected
         /\ "redirected" \in DOMAIN o => o.redirected
         /\ IF IsResponse(LastReply(i))
            THEN /\ redirected <=> LastReply(i).url # RequestUrl(i)
                 /\ redirected => o.redirect_url = LastReply(i).url
                 /\ o.final_url = LastReply(i).url
                 /\ o.status_code = Some(LastReply(i).status_code)
                 /\ (i \in consumed /\ pc # "unwinding") =>
                      InBucket(Category([is_error |-> FALSE,
                                         status_code |-> Some(LastReply(i).status_code)]), o)
            ELSE ~redirected

\* A probe of http://a was answered from https://b with a working status:
\* the outcome is in working and says where it was redirected to.
C14_Witness ==
  \E i \in Entries :
    /\ HasResult(i)
    /\ i \in consumed
    /\ urls[i] = WithScheme
    /\ "redirected" \in DOMAIN Outcome(i)
    /\ Outcome(i).redirect_url = RedirectTarget
    /\ InBucket("working", Outcome(i))

Traced(event) == \E k \in 1..Len(trace) : trace[k] = event

\* C15 as stated: a run of main whose input file could not be read reports
\* the failure, goes on with the empty list through check_urls, and ends
\* without error.
C15_LoadFailureChecked ==
  (caller = "main" /\ file = Unreadable /\ pc = "exit") =>
    /\ Traced("load_error")
    /\ Traced("check_urls")

\* C15: a run of main whose input file could not be read reports the
\* failure and takes the file as holding zero URLs; it then prints that there
\* are no URLs to check and returns without error, without calling check_urls
\* and without producing a result set, a report or a CSV.
C15_LoadFailureExits ==
  (caller = "main" /\ file = Unreadable /\ pc # "main") =>
    /\ urls = << >>
    /\ pc \in {"start", "exit"}
    /\ trace \in { <<"load_error", "loaded">>, <<"load_error", "loaded", "no_urls">> }
    /\ pc = "exit" <=> Traced("no_urls")
    /\ results = EmptyResults /\ report = None /\ csv = None

\* main has returned after failing to read its file.
C15_Witness ==
  /\ caller = "main"
  /\ file = Unreadable
  /\ pc = "exit"
  /\ trace = <<"load_error", "loaded", "no_urls">>

\* The complete event sequences of a run of main: without URLs, and with.
MainWithoutUrls ==
  { <<"no_urls">>, <<"loaded", "no_urls">>, <<"load_error", "loaded", "no_urls">> }

MainWithUrls == { <<"loaded", "check_urls", "print_results", "save_csv_report">> }

IsPrefix(p, q) == Len(p) <= Len(q) /\ \A k \in 1..Len(p) : p[k] = q[k]

\* main is over: it returned, or an exception left it.
MainOver == caller = "main" /\ pc \in {"exit", "saved", "raised", "print_raised"}

\* C16: a run of main goes through one of two sequences.  When the input
\* yields no URL (no file argument, an empty file, a load failure) it prints
\* that there are no URLs and returns, with no probe, report or CSV;
\* otherwise it runs check_urls, then print_results, then save_csv_report,
\* each after the one before has finished, and a finished run has gone
\* through the whole of its sequence.
C16_MainSequences ==
  caller = "main" =>
    /\ \E q \in MainWithoutUrls \cup MainWithUrls : IsPrefix(trace, q)
    /\ Traced("no_urls") =>
         /\ urls = << >> /\ pc = "exit"
         /\ report = None /\ csv = None /\ requests = << >>
    /\ Traced("print_results") => report # None /\ CheckUrlsReturned
    /\ Traced("save_csv_report") => csv # None /\ pc = "saved"
    /\ MainOver => trace \in MainWithoutUrls \cup MainWithUrls
    /\ MainOver => (urls = << >> <=> trace \in MainWithoutUrls)

\* Row r is what outcome o serializes to: each column holds the field's text,
\* and the empty string where the outcome has no such field or holds None.
Serializes(r, o) ==
  /\ DOMAIN r = FieldNames
  /\ r.url = <<"url", o.url>>
  /\ r.status_code = IF o.status_code = None THEN <<"str", "">>
                     ELSE <<"str", ToString(o.status_code[1])>>
  /\ r.reason = IF o.reason = None THEN <<"str", "">> ELSE <<"str", o.reason[1]>>
  /\ r.error_type = IF o.error_type = None THEN <<"str", "">>
                    ELSE <<"str", o.error_type[1]>>
  /\ r.response_time = <<"hundredths", o.response_time>>
  /\ r.is_error = <<"str", IF o.is_error THEN "True" ELSE "False">>
  /\ r.redirected = IF "redirected" \in DOMAIN o THEN <<"str", "True">> ELSE <<"str", "">>
  /\ r.redirect_url = IF "redirect_url" \in DOMAIN o THEN <<"url", o.redirect_url>>
                      ELSE <<"str", "">>

\* C17: save_csv_report writes one row per outcome of the result set it was
\* given (or of self.results): the working outcomes first, then the broken,
\* then the errors, each group in its bucket's order; a field the outcome
\* lacks (redirected and redirect_url without a redirect) or holds as None
\* (status_code of an error outcome) is written as the empty string.
C17_CsvRows ==
  csv # None =>
    LET rs == IF csv[1].of = "given" THEN results ELSE self.results
        all == rs.working \o rs.broken \o rs.errors
        rows == csv[1].rows
    IN /\ Len(rows) = Len(all)
       /\ \A k \in 1..Len(all) : Serializes(rows[k], all[k])

\* A report was written for a working outcome without a redirect and an
\* error outcome: two rows, the error's status_code empty.
C17_Witness ==
  /\ pc = "saved"
  /\ csv[1].of = "given"
  /\ Len(results.working) = 1 /\ Len(results.errors) = 1
  /\ Len(csv[1].rows) = 2
  /\ csv[1].rows[1].redirected = <<"str", "">>
  /\ csv[1].rows[2].status_code = <<"str", "">>
  /\ csv[1].rows[2].is_error = <<"str", "True">>

\* C18: normalize_url is idempotent and keeps a scheme: called on a string u
\* it returns u when u has a scheme and "https://" followed by u when it has
\* none, and called again on what it returned it returns the same.
C18_NormalizeIdempotent ==
  LET u == norm.input
      outs == norm.outs
  IN /\ Len(outs) >= 1 =>
          /\ outs[1].kind = "result"
          /\ UrlScheme(u) # << >> => outs[1].value = u
          /\ UrlScheme(u) = << >> => outs[1].value = HttpsPrefix \o u
     /\ Len(outs) >= 2 => outs[2] = outs[1]

\* C19: check_url and check_urls leave the checker's fields as __init__ set
\* them: timeout, max_workers, verify_ssl and the session headers never
\* change and self.results stays three empty buckets; a call of check_urls
\* starts from empty buckets whatever an earlier call returned; so
\* print_results and save_csv_report without a results argument work on an
\* empty result set.
C19_FieldsUnchanged ==
  /\ [](/\ self.timeout = DefaultTimeout
        /\ self.verify_ssl = FALSE
        /\ self.headers = BrowserHeaders
        /\ self.results = EmptyResults
        /\ (report # None /\ report[1].of = "default") =>
             report[1].total = 0 /\ report[1].counts = [working |-> 0, broken |-> 0, errors |-> 0]
        /\ (csv # None /\ csv[1].of = "default") => csv[1].rows = << >>)
  /\ [][ /\ self' = self
         /\ (pc # "submit" /\ pc' = "submit") =>
              results' = EmptyResults /\ consumed' = {} ]_vars

\* check_urls returned outcomes, and print_results() without an argument
\* counted none.
C19_Witness ==
  /\ AllOutcomes # << >>
  /\ report # None
  /\ report[1].of = "default"
  /\ report[1].total = 0

\* C20: when the HEAD, or the GET sent after a 405, ends in a network
\* failure, the outcome has is_error, the exception's type and message, no
\* status code (a HEAD's 405 is not kept), response_time 0 and none of
\* final_url, redirected and redirect_url, and once consumed it is in the
\* errors bucket and in no other.
C20_ErrorOutcomeBare ==
  \A i \in Entries :
    (HasResult(i) /\ ~IsResponse(LastReply(i))) =>
      LET o == Outcome(i)
      IN /\ o.is_error
         /\ o.status_code = None
         /\ o.response_time = 0
         /\ DOMAIN o \cap {"final_url", "redirected", "redirect_url"} = {}
         /\ o.error_type = Some(LastReply(i).type)
         /\ o.reason = Some(LastReply(i).msg)
         /\ o.url = RequestUrl(i)
         /\ i \in consumed =>
              /\ InBucket("errors", o)
              /\ ~InBucket("working", o) /\ ~InBucket("broken", o)

\* A HEAD was answered 405, the GET that followed failed, and the outcome was
\* consumed into errors.
C20_Witness ==
  \E i \in Entries :
    /\ HeadAnswered405(i)
    /\ Len(requests[i]) = 2
    /\ HasResult(i)
    /\ ~IsResponse(LastReply(i))
    /\ i \in consumed
    /\ InBucket("errors", Outcome(i))

====
